---- MODULE Spec2Model ----
(***************************************************************************)
(* A model of llm_function_stock_price_demo.py: the credential check at    *)
(* import time, the two Alphavantage lookups, the streaming accumulator,   *)
(* the tool dispatcher and the fixed conversation flow of get_stock_info.  *)
(*                                                                         *)
(* A Python str is a sequence of atoms (Text); concatenation is \o.  The    *)
(* literal parts of an f-string are single atoms.  None, a missing         *)
(* attribute and a missing dict key are explicit tags, so that truthiness  *)
(* tests and .get() defaults are computed as Python computes them.         *)
(***************************************************************************)
EXTENDS Integers, Sequences, FiniteSets, TLC

VARIABLES
    \* ---- module start-up and get_stock_info ----
    pc,                    \* position of the main program
    groq_api_key,          \* os.getenv("GROQ_API_KEY")
    alphavantage_api_key,  \* os.getenv("alphavantage_API_KEY")
    messages,              \* the conversation history of get_stock_info
    last_response,         \* the dict returned by the latest get_model_response
    user_input,            \* the text returned by the latest input()
    trace,                 \* history: the externally visible steps, in order
    invocations,           \* history: the tool functions called, in order
    next_id,               \* the provider's next tool-call id
    \* ---- process_stream, one chunk at a time ----
    st_pc, chunks, idx, full_text, tool_calls, stdout, st_ret,
    \* ---- search_stock_symbol and get_stock_price on one provider response ----
    fn_pc, data, fn_ret

vars == <<pc, groq_api_key, alphavantage_api_key, messages, last_response,
          user_input, trace, invocations, next_id,
          st_pc, chunks, idx, full_text, tool_calls, stdout, st_ret,
          fn_pc, data, fn_ret>>

flowVars == <<pc, groq_api_key, alphavantage_api_key, messages, last_response,
              user_input, trace, invocations, next_id>>
streamVars == <<st_pc, chunks, idx, full_text, tool_calls, stdout, st_ret>>
fnVars == <<fn_pc, data, fn_ret>>
\* What get_stock_info and the start-up never touch in this model.
flowFrame == <<st_pc, chunks, idx, full_text, tool_calls, st_ret, fn_pc, data, fn_ret>>

\* ---------------------------------------------------------------- bounds
\* Longest fragment stream handed to process_stream.
MaxChunks == 2
\* Most entries in a provider's bestMatches list.
MaxMatches == 3
\* Most tool invocations the model requests over one run of get_stock_info.
MaxToolCalls == 2

\* ------------------------------------------------------------ Python values
\* Python's None where a str is expected (dict.get on a missing key, JSON null).
PyNone == "<None>"
\* A key the provider's JSON object does not carry.
Missing == "<missing>"

\* What a called function did: returned a value, or raised.
Ok(v) == [raises |-> "", value |-> v]
Raise(e) == [raises |-> e, value |-> <<>>]

\* json.dumps(v): the JSON text of v, kept as the value it denotes.
JsonDumps(v) == <<"json", v>>

RECURSIVE Concat(_)
\* "".join(ts): the concatenation of a sequence of texts.
Concat(ts) == IF ts = <<>> THEN <<>> ELSE Head(ts) \o Concat(Tail(ts))

IsPrefix(s, t) == Len(s) <= Len(t) /\ SubSeq(t, 1, Len(s)) = s

\* ------------------------------------------------------------ Stream Accumulator
\* One delta of the stream: content is missing (no attribute), None or a str;
\* tool_calls is missing, None or a list.  The value slot of a missing or None
\* attribute is unused and holds <<>>.
Delta(ck, c, tk, t) == [content_kind |-> ck, content |-> c, calls_kind |-> tk, calls |-> t]

\* `hasattr(delta, 'content') and delta.content`
HasContent(delta) == delta.content_kind = "str" /\ delta.content /= <<>>

\* `hasattr(delta, 'tool_calls') and delta.tool_calls`
HasToolCalls(delta) == delta.calls_kind = "list" /\ delta.calls /= <<>>

\* A plausible slip: the fragment is echoed but put in front of the buffer.
StreamStepPrepend(acc, delta) ==
    [ full_text  |-> IF HasContent(delta) THEN delta.content \o acc.full_text ELSE acc.full_text,
      tool_calls |-> IF HasToolCalls(delta) THEN acc.tool_calls \o delta.calls ELSE acc.tool_calls,
      stdout     |-> IF HasContent(delta) THEN Append(acc.stdout, delta.content) ELSE acc.stdout ]

\* The body of the loop of process_stream on one chunk: acc holds the locals
\* full_text and tool_calls and what print() has written so far.
StreamStep(acc, delta) ==
    [ full_text  |-> IF HasContent(delta) THEN acc.full_text \o delta.content ELSE acc.full_text,
      tool_calls |-> IF HasToolCalls(delta) THEN acc.tool_calls \o delta.calls ELSE acc.tool_calls,
      stdout     |-> IF HasContent(delta) THEN Append(acc.stdout, delta.content) ELSE acc.stdout ]

\* The dict process_stream returns.
AssistantMessage(text, calls) ==
    [role |-> "assistant", content |-> text, tool_calls |-> calls, tool_call_id |-> 0]

RECURSIVE StreamFold(_, _)
StreamFold(acc, ds) == IF ds = <<>> THEN acc ELSE StreamFold(StreamStep(acc, Head(ds)), Tail(ds))

\* process_stream(response) run to completion: the returned dict and the
\* fragments printed, in order.
ProcessStream(ds) ==
    LET acc == StreamFold([full_text |-> <<>>, tool_calls |-> <<>>, stdout |-> <<>>], ds)
    IN  [message |-> AssistantMessage(acc.full_text, acc.tool_calls), printed |-> acc.stdout]

\* A tool-call descriptor of a delta: id, function.name, function.arguments.
ToolCall(i, n, a) == [id |-> i, name |-> n, arguments |-> a]

StreamTexts == { <<"a">>, <<"b", "c">> }
StreamCalls == { <<ToolCall(1, "search_stock_symbol", "kw")>>,
                 <<ToolCall(2, "get_stock_price", "sym"), ToolCall(3, "other_tool", "bad")>> }
StreamDeltas ==
    { Delta(ck, c, tk, t) :
        ck \in {"str"}, c \in StreamTexts \cup {<<>>}, tk \in {"list"}, t \in StreamCalls \cup {<<>>} }
    \cup { Delta("None", <<>>, "list", t) : t \in StreamCalls }
    \cup { Delta("str", c, "None", <<>>) : c \in StreamTexts }
    \cup { Delta("missing", <<>>, "missing", <<>>), Delta("None", <<>>, "None", <<>>) }

RECURSIVE SeqsUpTo(_, _)
\* All sequences over S of length at most n.
SeqsUpTo(S, n) ==
    IF n = 0 THEN { <<>> }
    ELSE LET shorter == SeqsUpTo(S, n - 1)
         IN  shorter \cup { Append(s, x) : s \in { t \in shorter : Len(t) = n - 1 }, x \in S }

StreamIdle ==
    /\ st_pc = "idle" /\ chunks = <<>> /\ idx = 0 /\ full_text = <<>>
    /\ tool_calls = <<>> /\ st_ret = AssistantMessage(<<>>, <<>>)

\* process_stream is entered with some finite stream; the locals are initialised.
StreamInit ==
    /\ st_pc = "loop"
    /\ chunks \in SeqsUpTo(StreamDeltas, MaxChunks)
    /\ idx = 0
    /\ full_text = <<>>
    /\ tool_calls = <<>>
    /\ stdout = <<>>
    /\ st_ret = AssistantMessage(<<>>, <<>>)

\* One iteration of `for chunk in response`.
StreamChunk ==
    /\ st_pc = "loop"
    /\ idx < Len(chunks)
    /\ LET acc == StreamStep([full_text |-> full_text, tool_calls |-> tool_calls, stdout |-> stdout],
                             chunks[idx + 1])
       IN  /\ full_text' = acc.full_text
           /\ tool_calls' = acc.tool_calls
           /\ stdout' = acc.stdout
    /\ idx' = idx + 1
    /\ UNCHANGED <<st_pc, chunks, st_ret>>
    /\ UNCHANGED <<flowVars, fnVars>>

\* The stream is exhausted: `return {...}`.
StreamReturn ==
    /\ st_pc = "loop"
    /\ idx = Len(chunks)
    /\ st_ret' = AssistantMessage(full_text, tool_calls)
    /\ st_pc' = "returned"
    /\ UNCHANGED <<chunks, idx, full_text, tool_calls, stdout>>
    /\ UNCHANGED <<flowVars, fnVars>>

\* ------------------------------------------------------------ Quote Gateway
\* requests.get(url).json(): the transport fails, or a JSON object arrives.
\* A SYMBOL_SEARCH object may carry 'bestMatches', a list of entries; each entry
\* carries '1. symbol', '2. name', '4. region' and, possibly, '9. matchScore'.
SearchEntry(sym, sc) ==
    [symbol |-> sym,
     name   |-> IF sym = "AAPL" THEN "Apple Inc" ELSE "Apple Hospitality REIT Inc",
     region |-> "United States",
     matchScore |-> sc]

SearchData(t, has, ms) == [transport |-> t, has_bestMatches |-> has, bestMatches |-> ms]

ScoreTexts == { "1.0000", "0.6000", "0.6" }

\* float(text) of a matchScore, in ten-thousandths.
Float(text) ==
    CASE text = "1.0000" -> 10000
      [] text = "0.6000" -> 6000
      [] text = "0.6"    -> 6000

\* `lambda x: float(x.get('9. matchScore', 0))`
SortKey(match) == IF match.matchScore = Missing THEN 0 ELSE Float(match.matchScore)

\* Stable insertion into a list sorted by key descending: x goes behind every
\* element whose key is not smaller.
InsertDescending(sorted, x) ==
    LET k == Cardinality({ i \in 1..Len(sorted) : SortKey(sorted[i]) >= SortKey(x) })
    IN  SubSeq(sorted, 1, k) \o <<x>> \o SubSeq(sorted, k + 1, Len(sorted))

\* x goes in front of the elements of equal key: what sorting ascending and
\* reversing the result produces.
InsertDescendingFront(sorted, x) ==
    LET k == Cardinality({ i \in 1..Len(sorted) : SortKey(sorted[i]) > SortKey(x) })
    IN  SubSeq(sorted, 1, k) \o <<x>> \o SubSeq(sorted, k + 1, Len(sorted))

RECURSIVE SortAscReversed(_, _)
SortAscReversed(done, rest) ==
    IF rest = <<>> THEN done
    ELSE SortAscReversed(InsertDescendingFront(done, Head(rest)), Tail(rest))

\* A plausible slip: sorted(..., key=...)[::-1] in place of reverse=True.
SortedByScoreReversedSlice(ms) == SortAscReversed(<<>>, ms)

RECURSIVE SortInto(_, _)
SortInto(done, rest) ==
    IF rest = <<>> THEN done
    ELSE SortInto(InsertDescending(done, Head(rest)), Tail(rest))

\* sorted(data['bestMatches'], key=..., reverse=True): stable, descending.
SortedByScore(ms) == SortInto(<<>>, ms)

\* One element of the `results` comprehension.
FormatMatch(match) ==
    [symbol |-> match.symbol, name |-> match.name, region |-> match.region,
     score |-> Float(match.matchScore)]

search_stock_symbol(d) ==
    IF d.transport /= "ok" THEN Raise("RequestException")
    ELSE IF d.has_bestMatches
         THEN LET matches == SortedByScore(d.bestMatches)
              IN  IF \E i \in 1..Len(matches) : matches[i].matchScore = Missing
                  THEN Raise("KeyError")
                  ELSE Ok(JsonDumps([i \in 1..Len(matches) |-> FormatMatch(matches[i])]))
         ELSE Ok(JsonDumps(<<>>))

\* A GLOBAL_QUOTE object may carry 'Global Quote', an object with any of the
\* fields '01. symbol', '05. price', '09. change', '10. change percent'.
QuoteObject(s, p, c, cp) == [symbol |-> s, price |-> p, change |-> c, change_percent |-> cp]

QuoteData(t, has, q) == [transport |-> t, has_quote |-> has, quote |-> q]

\* quote.get(key): None when the key is missing.
Get(v) == IF v = Missing THEN PyNone ELSE v

NoPriceData == [error |-> "No price data available"]

get_stock_price(d) ==
    IF d.transport /= "ok" THEN Raise("RequestException")
    ELSE IF d.has_quote
         THEN Ok(JsonDumps([symbol |-> Get(d.quote.symbol), price |-> Get(d.quote.price),
                            change |-> Get(d.quote.change),
                            change_percent |-> Get(d.quote.change_percent)]))
         ELSE Ok(JsonDumps(NoPriceData))

SearchEntries == { SearchEntry(sym, sc) : sym \in {"AAPL", "APLE"}, sc \in ScoreTexts \cup {Missing} }

SearchResponses ==
    { SearchData("error", FALSE, <<>>), SearchData("ok", FALSE, <<>>) }
    \cup { SearchData("ok", TRUE, ms) : ms \in SeqsUpTo(SearchEntries, MaxMatches) }

EmptyQuote == QuoteObject(Missing, Missing, Missing, Missing)

QuoteResponses ==
    { QuoteData("error", FALSE, EmptyQuote), QuoteData("ok", FALSE, EmptyQuote) }
    \cup { QuoteData("ok", TRUE, QuoteObject(s, p, c, cp)) :
             s \in {"AAPL", "APLE", Missing}, p \in {"150.00", "8.10", Missing},
             c \in {"-1.20", "0.35", Missing}, cp \in {"-0.79%", Missing} }

FnIdle == fn_pc = "idle" /\ data = SearchData("ok", FALSE, <<>>) /\ fn_ret = Ok(<<>>)

\* search_stock_symbol is about to receive some provider response.
SearchInit == fn_pc = "search" /\ data \in SearchResponses /\ fn_ret = Ok(<<>>)

SearchCall ==
    /\ fn_pc = "search"
    /\ fn_ret' = search_stock_symbol(data)
    /\ fn_pc' = "returned"
    /\ UNCHANGED <<data, flowVars, streamVars>>

\* get_stock_price is about to receive some provider response.
QuoteInit == fn_pc = "quote" /\ data \in QuoteResponses /\ fn_ret = Ok(<<>>)

QuoteCall ==
    /\ fn_pc = "quote"
    /\ fn_ret' = get_stock_price(data)
    /\ fn_pc' = "returned"
    /\ UNCHANGED <<data, flowVars, streamVars>>

\* ------------------------------------------------------------ Tool Dispatcher
\* The raw argument texts the model sends with a tool call.
ArgsKeywords == "{\"keywords\": \"Apple\"}"
ArgsSymbol == "{\"symbol\": \"AAPL\"}"
ArgsTruncated == "{\"symbol\": "

\* json.loads(text): the decoded mapping, or JSONDecodeError.
JsonLoads(text) ==
    CASE text = ArgsKeywords  -> Ok([keywords |-> "Apple"])
      [] text = ArgsSymbol    -> Ok([symbol |-> "AAPL"])
      [] text = ArgsTruncated -> Raise("JSONDecodeError")

\* The keys of available_functions.
Registry == { "search_stock_symbol", "get_stock_price" }

\* The parameter names of the registered functions.
Parameters(name) == IF name = "search_stock_symbol" THEN {"keywords"} ELSE {"symbol"}

\* What the provider answers to one lookup, as the two endpoints word it.
Outcomes == { "hit", "empty", "absent", "down" }

SearchReply(o) ==
    CASE o = "hit"    -> SearchData("ok", TRUE, <<SearchEntry("AAPL", "1.0000"), SearchEntry("APLE", "0.6000")>>)
      [] o = "empty"  -> SearchData("ok", TRUE, <<>>)
      [] o = "absent" -> SearchData("ok", FALSE, <<>>)
      [] o = "down"   -> SearchData("error", FALSE, <<>>)

QuoteReply(o) ==
    CASE o = "hit"    -> QuoteData("ok", TRUE, QuoteObject("AAPL", "150.00", "-1.20", "-0.79%"))
      [] o = "empty"  -> QuoteData("ok", TRUE, EmptyQuote)
      [] o = "absent" -> QuoteData("ok", FALSE, EmptyQuote)
      [] o = "down"   -> QuoteData("error", FALSE, EmptyQuote)

\* function_to_call(**function_args): binding the named parameters fails with
\* TypeError unless the keys are the function's parameters.
CallFunction(name, args, o) ==
    IF DOMAIN args /= Parameters(name) THEN Raise("TypeError")
    ELSE IF name = "search_stock_symbol" THEN search_stock_symbol(SearchReply(o))
         ELSE get_stock_price(QuoteReply(o))

\* The dict appended for one answered tool call; str() of a str is that str.
ToolMessage(content, id) ==
    [role |-> "tool", content |-> content, tool_calls |-> <<>>, tool_call_id |-> id]

\* A plausible slip: the new message is put at the head of the history.
InsertMessage(ms, m) == <<m>> \o ms

\* messages.append(m)
AppendMessage(ms, m) == Append(ms, m)

Invocation(call, args, result) ==
    [id |-> call.id, name |-> call.name, args |-> args, result |-> result]

\* A plausible slip: available_functions[function_name] in place of .get(),
\* so that an unregistered name raises KeyError.
DispatchStepStrict(st, call, o) ==
    IF st.raises /= "" THEN st
    ELSE IF call.name \notin Registry THEN [st EXCEPT !.raises = "KeyError"]
    ELSE LET decoded == JsonLoads(call.arguments)
         IN  IF decoded.raises /= "" THEN [st EXCEPT !.raises = decoded.raises]
             ELSE LET r == CallFunction(call.name, decoded.value, o)
                  IN  IF r.raises = "TypeError" THEN [st EXCEPT !.raises = "TypeError"]
                      ELSE IF r.raises /= ""
                      THEN [st EXCEPT !.raises = r.raises,
                                      !.invocations = Append(@, Invocation(call, decoded.value, r))]
                      ELSE [st EXCEPT !.messages = AppendMessage(@, ToolMessage(r.value, call.id)),
                                      !.invocations = Append(@, Invocation(call, decoded.value, r))]

\* The body of the loop of process_tool_calls on one tool call; o is what the
\* provider answers if the function is reached.  Once an exception is raised
\* the remaining calls are not looked at.
DispatchStep(st, call, o) ==
    IF st.raises /= "" THEN st
    ELSE IF call.name \notin Registry THEN st
    ELSE LET decoded == JsonLoads(call.arguments)
         IN  IF decoded.raises /= "" THEN [st EXCEPT !.raises = decoded.raises]
             ELSE LET r == CallFunction(call.name, decoded.value, o)
                  IN  IF r.raises = "TypeError" THEN [st EXCEPT !.raises = "TypeError"]
                      ELSE IF r.raises /= ""
                      THEN [st EXCEPT !.raises = r.raises,
                                      !.invocations = Append(@, Invocation(call, decoded.value, r))]
                      ELSE [st EXCEPT !.messages = AppendMessage(@, ToolMessage(r.value, call.id)),
                                      !.invocations = Append(@, Invocation(call, decoded.value, r))]

RECURSIVE DispatchFold(_, _, _)
DispatchFold(st, calls, os) ==
    IF calls = <<>> THEN st
    ELSE DispatchFold(DispatchStep(st, Head(calls), Head(os)), Tail(calls), Tail(os))

\* process_tool_calls(response_message, messages, available_functions)
process_tool_calls(response_message, ms, invs, os) ==
    DispatchFold([messages |-> ms, invocations |-> invs, raises |-> ""],
                 response_message.tool_calls, os)

\* ------------------------------------------------------------ Conversation Orchestrator
\* bool(key) is False for None and for "".
Falsy(key) == key = PyNone \/ key = ""

Credentials == { PyNone, "", "key" }

SystemPrompt == <<"You are a helpful stock market assistant. ...">>

SystemMessage == [role |-> "system", content |-> SystemPrompt, tool_calls |-> <<>>, tool_call_id |-> 0]

UserMessage(text) == [role |-> "user", content |-> text, tool_calls |-> <<>>, tool_call_id |-> 0]

\* f"What's the current stock price for {stock_query}?"
QueryContent(stock_query) == <<"What's the current stock price for ">> \o stock_query \o <<"?">>

\* A plausible slip: the input is passed on as it was typed.
ChoiceContentVerbatim(user_choice) == user_choice

\* f"I choose option {user_choice}."
ChoiceContent(user_choice) == <<"I choose option ">> \o user_choice \o <<".">>

\* What the user may type at a prompt; input() returns any line, "" included.
Queries == { <<"Apple">>, <<"Zzzznotreal">> }
Choices == { <<"1">>, <<"the", " second">> }

\* The requests a response may carry, as <<function.name, function.arguments>>.
ToolCallKinds ==
    { <<"search_stock_symbol", ArgsKeywords>>, <<"get_stock_price", ArgsSymbol>>,
      <<"other_tool", ArgsTruncated>>, <<"get_stock_price", ArgsTruncated>>,
      <<"search_stock_symbol", ArgsSymbol>> }

\* The text a response may carry: none at all, or some narration.
ReplyTexts == { <<>>, <<"Here", " you go">> }

\* The provider numbers the tool calls of a session; ids are never reused.
NumberCalls(kinds, first) ==
    [i \in 1..Len(kinds) |-> ToolCall(first + i - 1, kinds[i][1], kinds[i][2])]

\* The stream of a response: the text in one fragment (None when there is no
\* text), then one fragment per tool call.
ResponseStream(text, calls) ==
    << Delta(IF text = <<>> THEN "None" ELSE "str", text, "missing", <<>>) >>
    \o [i \in 1..Len(calls) |-> Delta("None", <<>>, "list", <<calls[i]>>)]

FlowInit ==
    /\ pc = "startup"
    /\ groq_api_key \in Credentials
    /\ alphavantage_api_key \in Credentials
    /\ messages = <<>>
    /\ last_response = AssistantMessage(<<>>, <<>>)
    /\ user_input = <<>>
    /\ trace = <<>>
    /\ invocations = <<>>
    /\ next_id = 1
    /\ stdout = <<>>

FlowIdle ==
    /\ pc = "idle" /\ groq_api_key = PyNone /\ alphavantage_api_key = PyNone
    /\ messages = <<>> /\ last_response = AssistantMessage(<<>>, <<>>)
    /\ user_input = <<>> /\ trace = <<>> /\ invocations = <<>> /\ next_id = 1

\* A plausible slip: only the first credential is checked.
StartupChecksGroqOnly ==
    /\ pc = "startup"
    /\ pc' = IF Falsy(groq_api_key) THEN "aborted" ELSE "ask_query"
    /\ UNCHANGED <<groq_api_key, alphavantage_api_key, messages, last_response, user_input,
                   trace, invocations, next_id, stdout>>
    /\ UNCHANGED flowFrame

\* Lines 12-26 and 272-273: the credentials are read and checked, the client
\* is built, get_stock_info is entered.
Startup ==
    /\ pc = "startup"
    /\ pc' = IF Falsy(groq_api_key) \/ Falsy(alphavantage_api_key) THEN "aborted" ELSE "ask_query"
    /\ UNCHANGED <<groq_api_key, alphavantage_api_key, messages, last_response, user_input,
                   trace, invocations, next_id, stdout>>
    /\ UNCHANGED flowFrame

\* The first input() and the construction of the initial message list.
AskQuery ==
    /\ pc = "ask_query"
    /\ \E stock_query \in Queries :
         /\ user_input' = stock_query
         /\ messages' = <<SystemMessage, UserMessage(QueryContent(stock_query))>>
    /\ stdout' = Append(stdout, <<"Enter the stock or company name you want to search for: ">>)
    /\ trace' = Append(trace, "prompt_query")
    /\ pc' = "call1"
    /\ UNCHANGED <<groq_api_key, alphavantage_api_key, last_response, invocations, next_id>>
    /\ UNCHANGED flowFrame

\* A plausible slip: the `if final_choice_response.get("tool_calls")` is dropped.
AfterCall3Always(m) == "dispatch3"

\* `if final_choice_response.get("tool_calls"):` after the third call.
AfterCall3(m) == IF m.tool_calls /= <<>> THEN "dispatch3" ELSE "done"

\* get_model_response(messages, tools): the provider streams some response, whose
\* tool calls it numbers, or the call raises.  `append` tells whether the caller
\* appends the returned dict to messages; `after` is the caller's next
\* position, "branch" standing for the test that follows the third call.
ModelCall(append, after) ==
    /\ trace' = Append(trace, "model_call")
    /\ \/ /\ pc' = "error"
          /\ UNCHANGED <<messages, last_response, next_id, stdout>>
       \/ \E text \in ReplyTexts, kinds \in SeqsUpTo(ToolCallKinds, MaxToolCalls + 1 - next_id) :
            LET r == ProcessStream(ResponseStream(text, NumberCalls(kinds, next_id)))
            IN  /\ last_response' = r.message
                /\ stdout' = stdout \o r.printed
                /\ messages' = IF append THEN AppendMessage(messages, r.message) ELSE messages
                /\ next_id' = next_id + Len(kinds)
                /\ pc' = IF after = "branch" THEN AfterCall3(r.message) ELSE after
    /\ UNCHANGED <<groq_api_key, alphavantage_api_key, user_input, invocations>>
    /\ UNCHANGED flowFrame

\* process_tool_calls(last_response, messages, available_functions), whole.
Dispatch(next) ==
    /\ trace' = Append(trace, "dispatch")
    /\ \E os \in [1..Len(last_response.tool_calls) -> Outcomes] :
         LET st == process_tool_calls(last_response, messages, invocations, os)
         IN  /\ messages' = st.messages
             /\ invocations' = st.invocations
             /\ pc' = IF st.raises /= "" THEN "error" ELSE next
    /\ UNCHANGED <<groq_api_key, alphavantage_api_key, last_response, user_input, next_id, stdout>>
    /\ UNCHANGED flowFrame

\* Lines 241-242.
ModelCall1 == pc = "call1" /\ ModelCall(TRUE, "dispatch1")

\* Line 245.
Dispatch1 == pc = "dispatch1" /\ Dispatch("call2")

\* A plausible slip: the second response's tool calls are dispatched as well.
ModelCall2Dispatching ==
    /\ pc = "call2"
    /\ trace' = Append(trace, "model_call")
    /\ \E text \in ReplyTexts, kinds \in SeqsUpTo(ToolCallKinds, MaxToolCalls + 1 - next_id),
          os \in [1..MaxToolCalls -> Outcomes] :
            LET r  == ProcessStream(ResponseStream(text, NumberCalls(kinds, next_id)))
                st == process_tool_calls(r.message, AppendMessage(messages, r.message), invocations, os)
            IN  /\ last_response' = r.message
                /\ stdout' = stdout \o r.printed
                /\ messages' = st.messages
                /\ invocations' = st.invocations
                /\ next_id' = next_id + Len(kinds)
                /\ pc' = IF st.raises /= "" THEN "error" ELSE "ask_choice"
    /\ UNCHANGED <<groq_api_key, alphavantage_api_key, user_input>>
    /\ UNCHANGED flowFrame

\* Lines 250-251.
ModelCall2 == pc = "call2" /\ ModelCall(TRUE, "ask_choice")

\* Lines 254-255: the second input() and the user message built from it.
AskChoice ==
    /\ pc = "ask_choice"
    /\ \E user_choice \in Choices :
         /\ user_input' = user_choice
         /\ messages' = AppendMessage(messages, UserMessage(ChoiceContent(user_choice)))
    /\ stdout' = Append(stdout, <<"\n\nEnter the number of your chosen symbol: ">>)
    /\ trace' = Append(trace, "prompt_choice")
    /\ pc' = "call3"
    /\ UNCHANGED <<groq_api_key, alphavantage_api_key, last_response, invocations, next_id>>
    /\ UNCHANGED flowFrame

\* Lines 260-261 and the test of line 264.
ModelCall3 == pc = "call3" /\ ModelCall(TRUE, "branch")

\* Line 265.
Dispatch3 == pc = "dispatch3" /\ Dispatch("call4")

\* Line 267: the returned dict is bound to final_response and not appended.
ModelCall4 == pc = "call4" /\ ModelCall(FALSE, "done")

\* ------------------------------------------------------------ specifications
\* The program: start-up, then get_stock_info.
Init == FlowInit /\ StreamIdle /\ FnIdle

Next ==
    \/ Startup
    \/ AskQuery
    \/ ModelCall1
    \/ Dispatch1
    \/ ModelCall2
    \/ AskChoice
    \/ ModelCall3
    \/ Dispatch3
    \/ ModelCall4

Spec == Init /\ [][Next]_vars

\* process_stream on any bounded stream, one fragment at a time.
StreamSpecInit == StreamInit /\ FlowIdle /\ FnIdle

StreamNext ==
    \/ StreamChunk
    \/ StreamReturn

StreamSpec == StreamSpecInit /\ [][StreamNext]_vars

\* search_stock_symbol on any bounded provider response.
SearchSpecInit == SearchInit /\ FlowIdle /\ StreamIdle /\ stdout = <<>>

SearchNext == SearchCall

SearchSpec == SearchSpecInit /\ [][SearchNext]_vars

\* get_stock_price on any provider response.
QuoteSpecInit == QuoteInit /\ FlowIdle /\ StreamIdle /\ stdout = <<>>

QuoteNext == QuoteCall

QuoteSpec == QuoteSpecInit /\ [][QuoteNext]_vars

\* ------------------------------------------------------------ properties
Last(s) == s[Len(s)]

\* The tool-role messages behind position i that answer the request `id`.
AnswersTo(i, id) ==
    { j \in (i + 1)..Len(messages) : messages[j].role = "tool" /\ messages[j].tool_call_id = id }

\* C1: at every model call after the first, each tool invocation request of
\* each assistant message in the history is answered by exactly one later
\* tool-role message carrying its id.
C1_EveryRequestAnswered ==
    pc \in {"call2", "call3", "call4"} =>
        \A i \in 1..Len(messages) :
            messages[i].role = "assistant" =>
                \A k \in 1..Len(messages[i].tool_calls) :
                    Cardinality(AnswersTo(i, messages[i].tool_calls[k].id)) = 1

\* The normalized form of a provider entry, and the score it is ranked by.
Normalized(match) ==
    [symbol |-> match.symbol, name |-> match.name, region |-> match.region,
     score |-> Float(match.matchScore)]

AllScored(ms) == \A i \in 1..Len(ms) : ms[i].matchScore \in ScoreTexts

\* C2: for a response with N scored entries search_stock_symbol returns N
\* normalized matches, a permutation of the entries in descending score order
\* in which entries of equal score keep the provider's order; a response with
\* no entries (empty or absent list) gives the empty sequence, without error.
C2_SearchSortedStable ==
    (fn_pc = "returned" /\ data.transport = "ok") =>
        IF ~data.has_bestMatches \/ data.bestMatches = <<>>
        THEN fn_ret = Ok(JsonDumps(<<>>))
        ELSE AllScored(data.bestMatches) =>
               /\ fn_ret.raises = ""
               /\ fn_ret.value[1] = "json"
               /\ LET res == fn_ret.value[2]
                      ms  == data.bestMatches
                      N   == Len(ms)
                  IN  /\ Len(res) = N
                      /\ \E p \in Permutations(1..N) :
                           /\ \A i \in 1..N : res[i] = Normalized(ms[p[i]])
                           /\ \A i, j \in 1..N : i < j => res[i].score >= res[j].score
                           /\ \A i, j \in 1..N :
                                (i < j /\ res[i].score = res[j].score) => p[i] < p[j]

\* Three scored entries, out of order, two of them distinct entries of equal score.
C2_Witness ==
    /\ fn_pc = "returned"
    /\ data.has_bestMatches
    /\ Len(data.bestMatches) = 3
    /\ AllScored(data.bestMatches)
    /\ SortKey(data.bestMatches[1]) < SortKey(data.bestMatches[3])
    /\ SortKey(data.bestMatches[1]) = SortKey(data.bestMatches[2])
    /\ data.bestMatches[1] /= data.bestMatches[2]

\* A quote object is usable only if it carries at least one quote field.
UsableQuote(d) == d.has_quote /\ d.quote /= EmptyQuote

IsQuoteRecord(v) == DOMAIN v = {"symbol", "price", "change", "change_percent"}

\* C3: for a quote response without a usable quote object get_stock_price
\* returns exactly the error marker, as a normal value; a Quote record is
\* returned only when the response carries the quote object.
C3_NoUsableQuoteGivesErrorMarker ==
    (fn_pc = "returned" /\ data.transport = "ok") =>
        /\ fn_ret.raises = ""
        /\ ~UsableQuote(data) => fn_ret.value = JsonDumps(NoPriceData)
        /\ IsQuoteRecord(fn_ret.value[2]) => data.has_quote

\* The text a fragment carries ("" when it carries none) and its descriptors.
TextOf(delta) == IF delta.content_kind = "str" THEN delta.content ELSE <<>>
CallsOf(delta) == IF delta.calls_kind = "list" THEN delta.calls ELSE <<>>
TextsOf(ds) == [i \in 1..Len(ds) |-> TextOf(ds[i])]
NonEmpty(t) == t /= <<>>

\* C4: after any number of fragments the buffer is the concatenation, in
\* arrival order, of the texts of the fragments consumed, the output holds
\* those same texts one by one in that order, and the tool-call list is the
\* concatenation of the fragments' descriptors; the returned message carries
\* the buffer and the list of the whole stream.
C4_StreamAccumulates ==
    st_pc \in {"loop", "returned"} =>
        LET seen == SubSeq(chunks, 1, idx)
        IN  /\ full_text = Concat(TextsOf(seen))
            /\ stdout = SelectSeq(TextsOf(seen), NonEmpty)
            /\ Concat(stdout) = full_text
            /\ tool_calls = Concat([i \in 1..Len(seen) |-> CallsOf(seen[i])])
            /\ st_pc = "returned" =>
                 /\ idx = Len(chunks)
                 /\ st_ret.role = "assistant"
                 /\ st_ret.content = Concat(TextsOf(chunks))
                 /\ st_ret.tool_calls = Concat([i \in 1..Len(chunks) |-> CallsOf(chunks[i])])

\* Two fragments, each with its own text and its own descriptors.
C4_Witness ==
    /\ st_pc = "returned"
    /\ Len(chunks) = 2
    /\ HasContent(chunks[1]) /\ HasContent(chunks[2])
    /\ chunks[1].content /= chunks[2].content
    /\ HasToolCalls(chunks[1]) /\ HasToolCalls(chunks[2])
    /\ chunks[1].calls /= chunks[2].calls

\* C5 as stated: the text read at the disambiguation prompt is the content of
\* the user message appended, unchanged.
C5_ChoiceAppendedVerbatim ==
    pc = "call3" => (Last(messages).role = "user" /\ Last(messages).content = user_input)

\* C5, amended: the user message appended has as content the text read,
\* unchanged and unvalidated, between "I choose option " and ".".
C5_ChoiceAppendedInTemplate ==
    pc = "call3" =>
        /\ Last(messages).role = "user"
        /\ Last(messages).content = <<"I choose option ">> \o user_input \o <<".">>
        /\ Len(Last(messages).content) = Len(user_input) + 2

\* The user typed something that names no option.
C5_Witness == pc = "call3" /\ user_input = <<"the", " second">>

\* C6: with a credential absent or empty the program aborts at start-up: no
\* prompt, no model call, no lookup request and no output ever occurs.
C6_MissingCredentialAborts ==
    (Falsy(groq_api_key) \/ Falsy(alphavantage_api_key)) =>
        /\ pc \in {"startup", "aborted"}
        /\ trace = <<>>
        /\ invocations = <<>>
        /\ messages = <<>>
        /\ stdout = <<>>

\* Aborted on the second credential alone.
C6_Witness == pc = "aborted" /\ ~Falsy(groq_api_key) /\ alphavantage_api_key = ""

ThreeCallRun ==
    <<"prompt_query", "model_call", "dispatch", "model_call", "prompt_choice", "model_call">>
FourCallRun == ThreeCallRun \o <<"dispatch", "model_call">>

AssistantPositions == { i \in 1..Len(messages) : messages[i].role = "assistant" }

\* C7: the steps of a run are a prefix of one fixed order; a run that ends
\* without error took the three-call order, or the four-call order if and only
\* if the third response requested tools, and the message of the fourth call
\* is not in the history.
C7_FixedOrder ==
    /\ IsPrefix(trace, FourCallRun)
    /\ pc = "done" =>
         /\ trace \in {ThreeCallRun, FourCallRun}
         /\ Cardinality(AssistantPositions) = 3
         /\ LET third == messages[CHOOSE i \in AssistantPositions :
                                    \A j \in AssistantPositions : j <= i]
            IN  (trace = FourCallRun) <=> (third.tool_calls /= <<>>)
         /\ Cardinality({ i \in 1..Len(trace) : trace[i] = "model_call" }) \in {3, 4}
         /\ Cardinality({ i \in 1..Len(trace) : trace[i] \in {"prompt_query", "prompt_choice"} }) = 2

\* A finished four-call run whose last response differs from every message kept.
C7_Witness ==
    /\ pc = "done"
    /\ trace = FourCallRun
    /\ \A i \in 1..Len(messages) : messages[i] /= last_response

AppendOnlyStep ==
    /\ IsPrefix(messages, messages')
    /\ (messages' /= <<>>) =>
          /\ Len(messages') >= 2
          /\ messages'[1] = SystemMessage
          /\ messages'[2].role = "user"
          /\ \E q \in Queries : messages'[2].content = QueryContent(q)

\* C8: every step leaves the history it found as a prefix of the new one, and
\* a history that exists begins with the system message and the initial user
\* message.
C8_AppendOnly == [][AppendOnlyStep]_vars

\* A history holding assistant, tool and user-choice messages.
C8_Witness ==
    /\ pc = "done"
    /\ Len(messages) >= 7
    /\ \E i \in 1..Len(messages) : messages[i].role = "tool"

IsRegistered(call) == call.name \in Registry

DispatchInOrderStep ==
     pc \in {"dispatch1", "dispatch3"} =>
          LET known  == SelectSeq(last_response.tool_calls, IsRegistered)
              added  == SubSeq(messages', Len(messages) + 1, Len(messages'))
              called == SubSeq(invocations', Len(invocations) + 1, Len(invocations'))
          IN  /\ IsPrefix(messages, messages')
              /\ IsPrefix(invocations, invocations')
              /\ Len(added) <= Len(called)
              /\ Len(called) <= Len(known)
              /\ \A i \in 1..Len(called) :
                   /\ called[i].id = known[i].id
                   /\ called[i].name = known[i].name
                   /\ called[i].args = JsonLoads(known[i].arguments).value
                   /\ \E o \in Outcomes :
                        called[i].result = CallFunction(known[i].name, called[i].args, o)
              /\ \A i \in 1..Len(added) :
                   /\ added[i].role = "tool"
                   /\ added[i].tool_call_id = known[i].id
                   /\ called[i].result.raises = ""
                   /\ added[i].content = called[i].result.value
              /\ pc' /= "error" => (Len(added) = Len(known) /\ Len(called) = Len(known))
              /\ pc' = "error" => Len(added) < Len(known)

\* C9: one dispatch handles the requests in order. The functions it calls are
\* the registered requests, in request order, each once with its decoded
\* arguments; each call that returns gives one appended tool message with the
\* request's id and the returned text; an unregistered request calls nothing,
\* appends nothing and raises nothing. Unless a call fails, the messages
\* appended are exactly the registered requests, in request order.
C9_DispatchInOrder == [][DispatchInOrderStep]_vars

\* A dispatch of an unregistered request followed by a registered one.
C9_Witness ==
    /\ pc = "call2"
    /\ Len(last_response.tool_calls) = 2
    /\ ~IsRegistered(last_response.tool_calls[1])
    /\ IsRegistered(last_response.tool_calls[2])
    /\ Last(messages).role = "tool"
    /\ Last(messages).tool_call_id = last_response.tool_calls[2].id

SecondResponseNotDispatchedStep ==
    /\ (pc = "call2") =>
          /\ invocations' = invocations
          /\ (pc' = "ask_choice") => (messages' = Append(messages, last_response'))
          /\ (pc' /= "ask_choice") => (messages' = messages)
    /\ (pc = "ask_choice") =>
          /\ invocations' = invocations
          /\ Last(messages) = last_response
          /\ Len(messages') = Len(messages) + 1
          /\ IsPrefix(messages, messages')
          /\ Last(messages').role = "user"
          /\ pc' = "call3"
    /\ (pc = "call3") =>
          /\ Last(messages).role = "user"
          /\ messages[Len(messages) - 1] = last_response
          /\ \A k \in 1..Len(last_response.tool_calls) :
               \A j \in 1..Len(messages) :
                  (messages[j].role = "tool") =>
                     (messages[j].tool_call_id /= last_response.tool_calls[k].id)

\* C10: from the return of the second model call to the start of the third no
\* tool function is called and no tool message is appended: the second
\* assistant message is followed directly by the user-choice message, and the
\* third call is issued with the second response's requests unanswered.
C10_SecondResponseNotDispatched == [][SecondResponseNotDispatchedStep]_vars

\* The third call is about to be issued and the second response asked for a
\* registered tool.
C10_Witness ==
    /\ pc = "call3"
    /\ messages[Len(messages) - 1].role = "assistant"
    /\ \E k \in 1..Len(messages[Len(messages) - 1].tool_calls) :
         IsRegistered(messages[Len(messages) - 1].tool_calls[k])

====
